---------------------------- MODULE Spec2Model ----------------------------
(***************************************************************************)
(* The shared-canvas history coordinator of collaborative-canvas: the      *)
(* DrawingStateManager (history log + redo stack) and the socket handlers  *)
(* of server.js that drive it through RoomManager.                         *)
(*                                                                         *)
(* Node processes one socket event to completion before the next one, so   *)
(* every handler is one atomic action.                                     *)
(***************************************************************************)
EXTENDS Integers, Sequences, FiniteSets, TLC

(***************************************************************************)
(* Program constant and bounds of the model.                               *)
(***************************************************************************)
maxHistorySize == 100

\* Length of the opening burst of strokes already committed when the
\* long-running scenario starts (ids 1..Prefill).
Prefill == 99

\* Number of further stroke commits that are handled one at a time.
MaxNew == 2

\* Latest reading of the wall clock.
MaxNow == 1

\* Largest number of undone actions waiting in the redo stack.
MaxRedo == 2

\* Connections whose handlers are installed, and the gesture payloads
\* (path, color, width, tool) a client may send with an 'end' event.
SocketIds == {"s1", "s2"}
Strokes == {"path"}
DrawingTypes == {"start", "draw", "end"}

\* JavaScript null, the result of undo()/redo() on an empty stack.
null == [id |-> 0]

\* The outcome of a call that ends in a throw instead of a return.
TypeError == [id |-> -1]

\* RoomManager.userColors, in palette order.
userColors ==
    << "#FF6B6B", "#4ECDC4", "#45B7D1", "#FFA07A",
       "#98D8C8", "#F7DC6F", "#BB8FCE", "#85C1E2",
       "#F8B739", "#52B788", "#E63946", "#A8DADC" >>

\* Outcomes of '#' + Math.floor(Math.random()*16777215).toString(16):
\* lower-case hexadecimal, so never the text of a palette entry.
RandomColors == {"#3fa9c1", "#ff6b6b"}

\* Participants of the opening burst of joins (the first PreJoined of
\* them), of whom the first MaxGone may leave, and the connections that
\* join one at a time, at most MaxJoins times in all.
BurstSocketIds ==
    << "b1", "b2", "b3", "b4", "b5", "b6", "b7", "b8", "b9", "b10", "b11", "b12" >>
PreJoined == 11
MaxGone == 1
MaxJoins == 3
Joiners == {"s1", "s2", "s3"}

\* Strokes on the canvas when the participants start to join and leave.
PreStrokes == 3

\* Where a pointer is reported between two gestures.
Positions == {[x |-> 10, y |-> 20]}

VARIABLES
    history,     \* DrawingStateManager.history
    redoStack,   \* DrawingStateManager.redoStack
    nextId,      \* identity of the next action object to be allocated
    now,         \* last value read from Date.now()
    op,          \* DrawingStateManager method called by the last handler
    ret,         \* value that call returned
    emitted,     \* messages emitted by the last handler, in order
    pre,         \* history, redoStack and op as they were before the last handler
    discarded,   \* actions that were in redoStack when a commit was processed
    cleared,     \* actions dropped by the most recent clear
    sinceClear,  \* TRUE from a clear until the next commit
    evicted,     \* actions the size bound has removed from history
    connected,   \* sockets of socket.io whose connection is open
    users,       \* RoomManager.users, in insertion order
    usedColors,  \* RoomManager.usedColors
    userCounter, \* RoomManager.userCounter
    preRoom,     \* connected and the RoomManager fields before the last handler
    who,         \* socket id the last RoomManager call was made for
    issued,      \* display names addUser has returned, in order
    joins,       \* number of connections handled one at a time
    netUndos,    \* undos less redos that succeeded since the last commit or clear
    canvas,      \* per browser page followed: the marks on its drawing canvas
    inbox,       \* per page: messages of the server still on their way to it
    pen,         \* per page: CanvasManager.isDrawing and currentPath
    toolbar,     \* per page: the counts shown on its undo and redo buttons
    logs         \* values DrawingStateManager.history has had while pages were followed

historyVars ==
    <<history, redoStack, nextId, now, discarded, cleared, sinceClear, netUndos, evicted>>

roomVars == <<connected, users, usedColors, userCounter, who, issued, joins>>

clientVars == <<canvas, inbox, pen, toolbar, logs>>

vars == <<history, redoStack, nextId, now, op, ret, emitted, pre,
          discarded, cleared, sinceClear, evicted,
          connected, users, usedColors, userCounter, preRoom, who, issued, joins,
          netUndos, canvas, inbox, pen, toolbar, logs>>

(***************************************************************************)
(* Helpers on sequences.                                                   *)
(***************************************************************************)
Range(s) == {s[i] : i \in 1..Len(s)}

Front(s) == SubSeq(s, 1, Len(s) - 1)

Last(s) == s[Len(s)]

(***************************************************************************)
(* DrawingStateManager.  Each method is a function from the manager's      *)
(* fields to its fields afterwards and the value returned.                 *)
(***************************************************************************)
This == [history |-> history, redoStack |-> redoStack]

\* Variants of addAction with a slip in it: no eviction; eviction one entry
\* early; the redo stack kept; the redo stack reset only when evicting.
addAction_NoEvict(this, action) ==
    [history   |-> Append(this.history, action),
     redoStack |-> <<>>,
     ret       |-> null]

addAction_EvictEarly(this, action) ==
    LET pushed == Append(this.history, action)
    IN  [history   |-> IF Len(pushed) >= maxHistorySize THEN Tail(pushed) ELSE pushed,
         redoStack |-> <<>>,
         ret       |-> null]

addAction_KeepRedo(this, action) ==
    LET pushed == Append(this.history, action)
    IN  [history   |-> IF Len(pushed) > maxHistorySize THEN Tail(pushed) ELSE pushed,
         redoStack |-> this.redoStack,
         ret       |-> null]

addAction_ResetOnEvict(this, action) ==
    LET pushed == Append(this.history, action)
    IN  [history   |-> IF Len(pushed) > maxHistorySize THEN Tail(pushed) ELSE pushed,
         redoStack |-> IF Len(pushed) > maxHistorySize THEN <<>> ELSE this.redoStack,
         ret       |-> null]

\* Variant of addAction with a slip in it: the entry shifted out is kept
\* on the redo stack.
addAction_EvictToRedo(this, action) ==
    LET pushed == Append(this.history, action)
    IN  [history   |-> IF Len(pushed) > maxHistorySize THEN Tail(pushed) ELSE pushed,
         redoStack |-> IF Len(pushed) > maxHistorySize THEN << Head(pushed) >> ELSE <<>>,
         ret       |-> null]

\* history.push(...); redoStack = []; if (length > max) history.shift()
addAction(this, action) ==
    LET pushed == Append(this.history, action)
    IN  [history   |-> IF Len(pushed) > maxHistorySize THEN Tail(pushed) ELSE pushed,
         redoStack |-> <<>>,
         ret       |-> null]

\* Variants of undo with a slip in it: the oldest entry taken (shift for
\* pop); the redo stack reset on the empty branch; the action put at the
\* bottom of the redo stack (unshift for push).
undo_Oldest(this) ==
    IF Len(this.history) = 0
    THEN [history |-> this.history, redoStack |-> this.redoStack, ret |-> null]
    ELSE LET action == Head(this.history)
         IN  [history   |-> Tail(this.history),
              redoStack |-> Append(this.redoStack, action),
              ret       |-> action]

undo_EmptyResets(this) ==
    IF Len(this.history) = 0
    THEN [history |-> this.history, redoStack |-> <<>>, ret |-> null]
    ELSE LET action == Last(this.history)
         IN  [history   |-> Front(this.history),
              redoStack |-> Append(this.redoStack, action),
              ret       |-> action]

undo_PushBottom(this) ==
    IF Len(this.history) = 0
    THEN [history |-> this.history, redoStack |-> this.redoStack, ret |-> null]
    ELSE LET action == Last(this.history)
         IN  [history   |-> Front(this.history),
              redoStack |-> <<action>> \o this.redoStack,
              ret       |-> action]

\* Variant of undo with a slip in it: the array is not tested for being
\* empty, and reading the popped action throws.
undo_Throws(this) ==
    IF Len(this.history) = 0
    THEN [history |-> this.history, redoStack |-> this.redoStack, ret |-> TypeError]
    ELSE LET action == Last(this.history)
         IN  [history   |-> Front(this.history),
              redoStack |-> Append(this.redoStack, action),
              ret       |-> action]

\* Variant of undo with a slip in it: the action is read and not popped.
undo_Copies(this) ==
    IF Len(this.history) = 0
    THEN [history |-> this.history, redoStack |-> this.redoStack, ret |-> null]
    ELSE LET action == Last(this.history)
         IN  [history   |-> this.history,
              redoStack |-> Append(this.redoStack, action),
              ret       |-> action]

undo(this) ==
    IF Len(this.history) = 0
    THEN [history |-> this.history, redoStack |-> this.redoStack, ret |-> null]
    ELSE LET action == Last(this.history)
         IN  [history   |-> Front(this.history),
              redoStack |-> Append(this.redoStack, action),
              ret       |-> action]

\* Variant of redo with a slip in it: the first undone action taken
\* (shift for pop).
redo_Oldest(this) ==
    IF Len(this.redoStack) = 0
    THEN [history |-> this.history, redoStack |-> this.redoStack, ret |-> null]
    ELSE LET action == Head(this.redoStack)
         IN  [history   |-> Append(this.history, action),
              redoStack |-> Tail(this.redoStack),
              ret       |-> action]

\* Variants of redo with a slip in it: the action is stamped again when it
\* returns to the history; the action is left on the redo stack.
redo_Restamp(this) ==
    IF Len(this.redoStack) = 0
    THEN [history |-> this.history, redoStack |-> this.redoStack, ret |-> null]
    ELSE LET action == [Last(this.redoStack) EXCEPT !.timestamp = now + 1]
         IN  [history   |-> Append(this.history, action),
              redoStack |-> Front(this.redoStack),
              ret       |-> action]

redo_KeepsTop(this) ==
    IF Len(this.redoStack) = 0
    THEN [history |-> this.history, redoStack |-> this.redoStack, ret |-> null]
    ELSE LET action == Last(this.redoStack)
         IN  [history   |-> Append(this.history, action),
              redoStack |-> this.redoStack,
              ret       |-> action]

\* Variant of redo with a slip in it: unshift for push.
redo_Unshift(this) ==
    IF Len(this.redoStack) = 0
    THEN [history |-> this.history, redoStack |-> this.redoStack, ret |-> null]
    ELSE LET action == Last(this.redoStack)
         IN  [history   |-> << action >> \o this.history,
              redoStack |-> Front(this.redoStack),
              ret       |-> action]

redo(this) ==
    IF Len(this.redoStack) = 0
    THEN [history |-> this.history, redoStack |-> this.redoStack, ret |-> null]
    ELSE LET action == Last(this.redoStack)
         IN  [history   |-> Append(this.history, action),
              redoStack |-> Front(this.redoStack),
              ret       |-> action]

\* Variants of clearHistory with a slip in it: the redo stack kept; the
\* history moved onto the redo stack (an undoable clear).
clearHistory_KeepRedo(this) ==
    [history |-> <<>>, redoStack |-> this.redoStack, ret |-> null]

clearHistory_Undoable(this) ==
    [history |-> <<>>,
     redoStack |-> this.redoStack \o
                   [i \in 1..Len(this.history) |-> this.history[Len(this.history) + 1 - i]],
     ret |-> null]

clearHistory(this) ==
    [history |-> <<>>, redoStack |-> <<>>, ret |-> null]

getState(this) ==
    [history |-> this.history, historyLength |-> Len(this.history)]

getRedoLength(this) == Len(this.redoStack)

(***************************************************************************)
(* RoomManager (rooms.js).  The Map users is a sequence in insertion order *)
(* of the user objects, each carrying its key as userId.                   *)
(***************************************************************************)
Room == [users |-> users, usedColors |-> usedColors, userCounter |-> userCounter]

IndexOf(seq, socketId) ==
    IF \E i \in 1..Len(seq) : seq[i].userId = socketId
    THEN CHOOSE i \in 1..Len(seq) : seq[i].userId = socketId
    ELSE 0

\* Variant of getAvailableColor with a slip in it: the color is returned
\* without being marked as used.
getAvailableColor_NoMark(room, random) ==
    LET free == {i \in 1..Len(userColors) : userColors[i] \notin room.usedColors}
    IN  IF free # {}
        THEN LET first == CHOOSE i \in free : \A j \in free : i <= j
             IN  [usedColors |-> room.usedColors, color |-> userColors[first]]
        ELSE [usedColors |-> room.usedColors, color |-> random]

\* The first palette entry not in usedColors is marked and returned; with
\* none left the random color is returned and nothing is marked.
\* Variant of getAvailableColor with a slip in it: the synthesized color is
\* marked as used too.
getAvailableColor_MarksFallback(room, random) ==
    LET free == {i \in 1..Len(userColors) : userColors[i] \notin room.usedColors}
    IN  IF free # {}
        THEN LET first == CHOOSE i \in free : \A j \in free : i <= j
             IN  [usedColors |-> room.usedColors \cup {userColors[first]},
                  color |-> userColors[first]]
        ELSE [usedColors |-> room.usedColors \cup {random}, color |-> random]

getAvailableColor(room, random) ==
    LET free == {i \in 1..Len(userColors) : userColors[i] \notin room.usedColors}
    IN  IF free # {}
        THEN LET first == CHOOSE i \in free : \A j \in free : i <= j
             IN  [usedColors |-> room.usedColors \cup {userColors[first]},
                  color |-> userColors[first]]
        ELSE [usedColors |-> room.usedColors, color |-> random]

\* `User ${n}`
UserName(n) == <<"User", n>>

\* users.set(socketId, user): a new key is appended, a known key keeps its place.
MapSet(seq, socketId, user) ==
    IF IndexOf(seq, socketId) = 0
    THEN Append(seq, user)
    ELSE [seq EXCEPT ![IndexOf(seq, socketId)] = user]

MapDelete(seq, socketId) ==
    LET Keep(u) == u.userId # socketId
    IN  SelectSeq(seq, Keep)

addUser(room, socketId, random, date) ==
    LET picked == getAvailableColor(room, random)
        user   == [userId |-> socketId,
                   name |-> UserName(room.userCounter),
                   color |-> picked.color,
                   connectedAt |-> date]
    IN  [users |-> MapSet(room.users, socketId, user),
         usedColors |-> picked.usedColors,
         userCounter |-> room.userCounter + 1,
         ret |-> user]

\* Variants of removeUser with a slip in it: the user stays in the map; the
\* name counter is given back; an unknown identifier removes the last user
\* (splice at index -1).
removeUser_KeepsUser(room, socketId) ==
    LET i == IndexOf(room.users, socketId)
    IN  IF i # 0
        THEN [users |-> room.users,
              usedColors |-> room.usedColors \ {room.users[i].color},
              userCounter |-> room.userCounter]
        ELSE [users |-> room.users,
              usedColors |-> room.usedColors,
              userCounter |-> room.userCounter]

removeUser_Decrement(room, socketId) ==
    LET i == IndexOf(room.users, socketId)
    IN  IF i # 0
        THEN [users |-> MapDelete(room.users, socketId),
              usedColors |-> room.usedColors \ {room.users[i].color},
              userCounter |-> room.userCounter - 1]
        ELSE [users |-> room.users,
              usedColors |-> room.usedColors,
              userCounter |-> room.userCounter]

removeUser_Splice(room, socketId) ==
    LET i == IndexOf(room.users, socketId)
    IN  IF i # 0
        THEN [users |-> MapDelete(room.users, socketId),
              usedColors |-> room.usedColors \ {room.users[i].color},
              userCounter |-> room.userCounter]
        ELSE [users |-> SubSeq(room.users, 1, Len(room.users) - 1),
              usedColors |-> room.usedColors,
              userCounter |-> room.userCounter]

\* Variant of removeUser with a slip in it: the color of the user who
\* leaves is not deleted from usedColors.
removeUser_KeepsColor(room, socketId) ==
    LET i == IndexOf(room.users, socketId)
    IN  IF i # 0
        THEN [users |-> MapDelete(room.users, socketId),
              usedColors |-> room.usedColors,
              userCounter |-> room.userCounter]
        ELSE [users |-> room.users,
              usedColors |-> room.usedColors,
              userCounter |-> room.userCounter]

removeUser(room, socketId) ==
    LET i == IndexOf(room.users, socketId)
    IN  IF i # 0
        THEN [users |-> MapDelete(room.users, socketId),
              usedColors |-> room.usedColors \ {room.users[i].color},
              userCounter |-> room.userCounter]
        ELSE [users |-> room.users,
              usedColors |-> room.usedColors,
              userCounter |-> room.userCounter]

getUsers(room) ==
    [i \in 1..Len(room.users) |->
        [userId |-> room.users[i].userId,
         name |-> room.users[i].name,
         color |-> room.users[i].color]]

(***************************************************************************)
(* Messages of the server.                                                 *)
(***************************************************************************)
historyUpdate(this) ==
    [event |-> "historyUpdate", to |-> "all",
     historyCount |-> getState(this).historyLength,
     redoCount |-> getRedoLength(this)]

redrawCanvas(this) ==
    [event |-> "redrawCanvas", to |-> "all", actions |-> getState(this).history]

\* socket.emit(...) of the connection and state-request handlers.
redrawCanvasTo(this, socket) ==
    [event |-> "redrawCanvas", to |-> "socket", socket |-> socket,
     actions |-> getState(this).history]

historyUpdateTo(this, socket) ==
    [event |-> "historyUpdate", to |-> "socket", socket |-> socket,
     historyCount |-> getState(this).historyLength,
     redoCount |-> getRedoLength(this)]

userList(room) ==
    [event |-> "userList", to |-> "all", users |-> getUsers(room)]

\* The sockets a message goes to: io.emit reaches every open connection,
\* socket.broadcast.emit every one but the sender, socket.emit the socket.
Audience(m, open) ==
    CASE m.to = "all"    -> open
      [] m.to = "others" -> open \ {m.from}
      [] m.to = "socket" -> {m.socket}

\* const userData = roomManager.addUser(socket.id), as the handlers of the
\* connection see it.
userData(socket) == users[IndexOf(users, socket)]

\* The action object built by the 'drawing' handler and stamped by addAction.
NewAction(socket, data, t) ==
    [id |-> nextId, userId |-> socket, data |-> data, timestamp |-> t]

\* The strokes of the opening burst, committed in turn by s1, s2 and s0
\* before time 0.
BurstAction(i) ==
    [id |-> i,
     userId |-> CASE i % 3 = 1 -> "s1" [] i % 3 = 2 -> "s2" [] OTHER -> "s0",
     data |-> "path",
     timestamp |-> 0]

Burst(n) == [i \in 1..n |-> BurstAction(i)]

Snapshot == [history |-> history, redoStack |-> redoStack, op |-> op]

RoomSnapshot ==
    [connected |-> connected, users |-> users, usedColors |-> usedColors,
     userCounter |-> userCounter, who |-> who]

\* new RoomManager(), and the manager after the first k participants of
\* the opening burst have joined at time 0 and gone (one of them, or
\* "none") has left again.
NewRoom == [users |-> <<>>, usedColors |-> {}, userCounter |-> 1]

RECURSIVE JoinedRoom(_, _)
JoinedRoom(ids, k) ==
    IF k = 0
    THEN NewRoom
    ELSE LET r == addUser(JoinedRoom(ids, k - 1), ids[k], "#3fa9c1", 0)
         IN  [users |-> r.users, usedColors |-> r.usedColors,
              userCounter |-> r.userCounter]

RoomStart(ids, k, gone) ==
    LET joined == JoinedRoom(ids, k)
        r == removeUser(joined, gone)
    IN  /\ connected = {ids[i] : i \in 1..k} \ {gone}
        /\ users = r.users
        /\ usedColors = r.usedColors
        /\ userCounter = r.userCounter
        /\ preRoom = [connected |-> {}, users |-> <<>>, usedColors |-> {},
                      userCounter |-> 1, who |-> "none"]
        /\ who = "none"
        /\ issued = [i \in 1..k |-> joined.users[i].name]
        /\ joins = 0

(***************************************************************************)
(* Initial states: the manager as constructed, or as it is after a burst   *)
(* of stroke commits, the last ones of them undone or not.                 *)
(***************************************************************************)
HistoryStart(lengths, undone) ==
    /\ \E n \in lengths, u \in undone :
          /\ u <= n
          /\ history = SubSeq(Burst(n), 1, n - u)
          /\ redoStack = [i \in 1..u |-> BurstAction(n + 1 - i)]
          /\ netUndos = u
    /\ nextId = Prefill + 1
    /\ now = 0
    /\ op = "constructor"
    /\ ret = null
    /\ emitted = <<>>
    /\ pre = [history |-> <<>>, redoStack |-> <<>>, op |-> "constructor"]
    /\ discarded = {}
    /\ cleared = {}
    /\ evicted = {}
    /\ sinceClear = FALSE

\* No browser page is followed.
NoPages ==
    /\ canvas = << >>
    /\ inbox = << >>
    /\ pen = << >>
    /\ toolbar = << >>
    /\ logs = {}

(***************************************************************************)
(* Browser pages.  A page that is followed has a canvas (the set of line   *)
(* segments it shows, each named by its path and its place in the path),   *)
(* a pen (the gesture of its CanvasManager and the request it has written  *)
(* to its socket that the server has not handled yet) and an inbox (the    *)
(* messages of the server on their way to it, in the order sent).          *)
(***************************************************************************)
Pages == {"s1", "s2"}

\* Gestures a page makes, points of a path, and messages on the way to a page.
MaxGestures == 1
MaxPoints == 3
MaxInbox == 1

\* CanvasManager.currentColor as constructed; the color input is not touched.
currentColor == "#000000"

\* No request under way.
none == [event |-> "none"]

Sent(c) == IF c \in DOMAIN pen THEN pen[c].sent ELSE none

\* CanvasManager.drawPath: one line per pair of consecutive points.
drawPath(path) == {<<path.path, j>> : j \in 1..(path.points - 1)}

\* The canvas after every action of a list was drawn on an empty one.
MarksOf(actions) ==
    UNION {drawPath(actions[i].data) : i \in 1..Len(actions)}

\* The callbacks of the page that draw: onRemoteDrawing draws a segment
\* when the data has a fromX (a move), onRedrawCanvas clears and replays,
\* onClearCanvas clears.  No callback is registered for 'canvasState'.
onRemoteDrawing(shown, data) ==
    IF "segment" \in DOMAIN data
    THEN shown \cup {<<data.path, data.segment>>}
    ELSE shown

onRedrawCanvas(shown, actions) == MarksOf(actions)

onClearCanvas(shown) == {}

Callback(shown, m) ==
    CASE m.event = "drawing"      -> onRemoteDrawing(shown, m.data)
      [] m.event = "redrawCanvas" -> onRedrawCanvas(shown, m.actions)
      [] m.event = "clearCanvas"  -> onClearCanvas(shown)
      [] OTHER                    -> shown

\* The events whose callbacks draw; the others feed the toolbar, the user
\* list and the cursors.
CanvasEvents == {"drawing", "redrawCanvas", "clearCanvas"}

\* The events whose callbacks touch what is followed of the pages: their
\* canvases, their toolbars, or both.
Followed ==
    (IF DOMAIN canvas = {} THEN {} ELSE CanvasEvents)
        \cup (IF DOMAIN toolbar = {} THEN {} ELSE {"historyUpdate"})

\* The messages of a handler that reach page c and are followed there.
ForPage(msgs, c, open) ==
    LET Reaches(m) == m.event \in Followed /\ c \in Audience(m, open)
    IN  SelectSeq(msgs, Reaches)

\* wsManager.onHistoryUpdate: updateHistoryButtons shows the counts and
\* disables the undo button at historyCount 0, the redo button at redoCount 0.
onHistoryUpdate(shown, m) ==
    IF m.event = "historyUpdate"
    THEN [historyCount |-> m.historyCount, redoCount |-> m.redoCount]
    ELSE shown

\* What a handler of the server means to the pages: the request it handles
\* is the one the socket's page wrote, its messages join the inboxes of the
\* open connections, and a closed connection loses what was on its way.
Hear(socket, request) ==
    IF DOMAIN inbox = {}
    THEN UNCHANGED clientVars
    ELSE /\ socket \in DOMAIN pen => pen[socket].sent = request
         /\ pen' = IF socket \in DOMAIN pen
                    THEN [pen EXCEPT ![socket] = [@ EXCEPT !.sent = none]]
                    ELSE pen
         /\ inbox' = [c \in DOMAIN inbox |->
                        IF c \in connected'
                        THEN inbox[c] \o ForPage(emitted', c, connected')
                        ELSE << >>]
         /\ \A c \in DOMAIN inbox : Len(inbox'[c]) <= MaxInbox
         /\ UNCHANGED <<canvas, toolbar>>
         /\ logs' = IF DOMAIN canvas = {} THEN logs ELSE logs \cup {history'}

\* The coordinator with the two connections s1 and s2 open; s0, who drew
\* in the opening burst, has left.
Init ==
    /\ HistoryStart({0, Prefill}, {0})
    /\ RoomStart(<<"s0", "s1", "s2">>, 3, "s0")
    /\ NoPages

\* The registry as constructed or after the opening burst of joins, with
\* the canvas empty or holding PreStrokes strokes, the last one undone or not.
RegistryInit ==
    /\ HistoryStart({0, PreStrokes}, {0, 1})
    /\ \E k \in {0, PreJoined} : RoomStart(BurstSocketIds, k, "none")
    /\ NoPages

(***************************************************************************)
(* socket.on('drawing'): an 'end' event commits the stroke and announces   *)
(* the new sizes; every event is relayed to the other connections.         *)
(***************************************************************************)
\* Variant of the handler with a slip in it: the sizes are read before the
\* stroke is added.
DrawingEnd_StaleCounts(socket, data) ==
    /\ socket \in connected
    /\ nextId <= Prefill + MaxNew
    /\ \E t \in {now, now + 1} :
          /\ t <= MaxNow
          /\ LET after == addAction(This, NewAction(socket, data, t))
             IN  /\ history' = after.history
                 /\ redoStack' = after.redoStack
                 /\ ret' = after.ret
                 /\ emitted' = << historyUpdate(This),
                                  [event |-> "drawing", to |-> "others",
                                   from |-> socket, type |-> "end", data |-> data,
                                   userId |-> socket, color |-> userData(socket).color] >>
          /\ now' = t
    /\ nextId' = nextId + 1
    /\ op' = "addAction"
    /\ pre' = Snapshot
    /\ discarded' = discarded \cup Range(redoStack)
    /\ cleared' = {}
    /\ evicted' = evicted \cup (Range(history) \ Range(history'))
    /\ sinceClear' = FALSE
    /\ netUndos' = 0
    /\ preRoom' = RoomSnapshot
    /\ UNCHANGED roomVars
    /\ Hear(socket, [event |-> "drawing", type |-> "end", data |-> data])

DrawingEnd(socket, data) ==
    /\ socket \in connected
    /\ nextId <= Prefill + MaxNew
    /\ \E t \in {now, now + 1} :
          /\ t <= MaxNow
          /\ LET after == addAction(This, NewAction(socket, data, t))
             IN  /\ history' = after.history
                 /\ redoStack' = after.redoStack
                 /\ ret' = after.ret
                 /\ emitted' = << historyUpdate(after),
                                  [event |-> "drawing", to |-> "others",
                                   from |-> socket, type |-> "end", data |-> data,
                                   userId |-> socket, color |-> userData(socket).color] >>
          /\ now' = t
    /\ nextId' = nextId + 1
    /\ op' = "addAction"
    /\ pre' = Snapshot
    /\ discarded' = discarded \cup Range(redoStack)
    /\ cleared' = {}
    /\ evicted' = evicted \cup (Range(history) \ Range(history'))
    /\ sinceClear' = FALSE
    /\ netUndos' = 0
    /\ preRoom' = RoomSnapshot
    /\ UNCHANGED roomVars
    /\ Hear(socket, [event |-> "drawing", type |-> "end", data |-> data])

\* Variant of the handler with a slip in it: the test of data.type is
\* missing, so every 'drawing' event is committed.
DrawingOther_Commits(socket, type, data) ==
    /\ socket \in connected
    /\ type # "end"
    /\ nextId <= Prefill + MaxNew
    /\ LET after == addAction(This, NewAction(socket, data, now))
       IN  /\ history' = after.history
           /\ redoStack' = after.redoStack
    /\ emitted' = << [event |-> "drawing", to |-> "others",
                      from |-> socket, type |-> type, data |-> data,
                      userId |-> socket, color |-> userData(socket).color] >>
    /\ nextId' = nextId + 1
    /\ op' = "none"
    /\ ret' = null
    /\ pre' = Snapshot
    /\ discarded' = discarded \cup Range(redoStack)
    /\ netUndos' = 0
    /\ UNCHANGED <<now, cleared, sinceClear>>
    /\ evicted' = evicted \cup (Range(history) \ Range(history'))
    /\ preRoom' = RoomSnapshot
    /\ UNCHANGED roomVars
    /\ Hear(socket, [event |-> "drawing", type |-> type, data |-> data])

\* A 'drawing' event of a gesture that goes on: 'start', or a move, whose
\* data carries no type ("draw" stands for it).  The relay is
\* {...data, userId, color: userData.color}: its color is the color of the
\* participant, whatever color the data came with.
DrawingOther(socket, type, data) ==
    /\ socket \in connected
    /\ type # "end"
    /\ emitted' = << [event |-> "drawing", to |-> "others",
                      from |-> socket, type |-> type, data |-> data,
                      userId |-> socket, color |-> userData(socket).color] >>
    /\ op' = "none"
    /\ ret' = null
    /\ pre' = Snapshot
    /\ UNCHANGED <<history, redoStack, nextId, now, discarded, cleared, sinceClear,
                   netUndos, evicted>>
    /\ preRoom' = RoomSnapshot
    /\ UNCHANGED roomVars
    /\ Hear(socket, [event |-> "drawing", type |-> type, data |-> data])

(***************************************************************************)
(* socket.on('undo') and socket.on('redo').                                *)
(***************************************************************************)
\* Variant of the handler with a slip in it: the canvas state is read
\* before the undo.
Undo_StaleReplay(socket) ==
    LET after == undo(This)
    IN  /\ socket \in connected
        /\ Len(redoStack) < MaxRedo
        /\ history' = after.history
        /\ redoStack' = after.redoStack
        /\ ret' = after.ret
        /\ emitted' = IF after.ret # null
                      THEN << redrawCanvas(This), historyUpdate(after) >>
                      ELSE <<>>
        /\ op' = "undo"
        /\ pre' = Snapshot
        /\ netUndos' = IF after.ret # null THEN netUndos + 1 ELSE netUndos
        /\ UNCHANGED <<nextId, now, discarded, cleared, sinceClear, evicted>>
        /\ preRoom' = RoomSnapshot
        /\ UNCHANGED roomVars
        /\ Hear(socket, [event |-> "undo"])

\* Variant of the handler with a slip in it: an undo request that follows
\* a successful undo directly is taken for a duplicate and dropped.
Undo_Debounced(socket) ==
    LET after == IF op = "undo" /\ ret # null
                 THEN [history |-> history, redoStack |-> redoStack, ret |-> null]
                 ELSE undo(This)
    IN  /\ socket \in connected
        /\ Len(redoStack) < MaxRedo
        /\ history' = after.history
        /\ redoStack' = after.redoStack
        /\ ret' = after.ret
        /\ emitted' = IF after.ret # null
                      THEN << redrawCanvas(after), historyUpdate(after) >>
                      ELSE <<>>
        /\ op' = "undo"
        /\ pre' = Snapshot
        /\ netUndos' = IF after.ret # null THEN netUndos + 1 ELSE netUndos
        /\ UNCHANGED <<nextId, now, discarded, cleared, sinceClear, evicted>>
        /\ preRoom' = RoomSnapshot
        /\ UNCHANGED roomVars
        /\ Hear(socket, [event |-> "undo"])

\* Variant of the handler with a slip in it: a connection may only undo
\* an action it has drawn itself.
Undo_OwnOnly(socket) ==
    LET after == IF Len(history) > 0 /\ Last(history).userId # socket
                 THEN [history |-> history, redoStack |-> redoStack, ret |-> null]
                 ELSE undo(This)
    IN  /\ socket \in connected
        /\ Len(redoStack) < MaxRedo
        /\ history' = after.history
        /\ redoStack' = after.redoStack
        /\ ret' = after.ret
        /\ emitted' = IF after.ret # null
                      THEN << redrawCanvas(after), historyUpdate(after) >>
                      ELSE <<>>
        /\ op' = "undo"
        /\ pre' = Snapshot
        /\ netUndos' = IF after.ret # null THEN netUndos + 1 ELSE netUndos
        /\ UNCHANGED <<nextId, now, discarded, cleared, sinceClear, evicted>>
        /\ preRoom' = RoomSnapshot
        /\ UNCHANGED roomVars
        /\ Hear(socket, [event |-> "undo"])

\* Variant of the handler with a slip in it: the sizes are announced also
\* when there was nothing to undo.
Undo_AlwaysAnnounces(socket) ==
    LET after == undo(This)
    IN  /\ socket \in connected
        /\ Len(redoStack) < MaxRedo
        /\ history' = after.history
        /\ redoStack' = after.redoStack
        /\ ret' = after.ret
        /\ emitted' = IF after.ret # null
                      THEN << redrawCanvas(after), historyUpdate(after) >>
                      ELSE << historyUpdate(after) >>
        /\ op' = "undo"
        /\ pre' = Snapshot
        /\ netUndos' = IF after.ret # null THEN netUndos + 1 ELSE netUndos
        /\ UNCHANGED <<nextId, now, discarded, cleared, sinceClear, evicted>>
        /\ preRoom' = RoomSnapshot
        /\ UNCHANGED roomVars
        /\ Hear(socket, [event |-> "undo"])

Undo(socket) ==
    LET after == undo(This)
    IN  /\ socket \in connected
        /\ Len(redoStack) < MaxRedo
        /\ history' = after.history
        /\ redoStack' = after.redoStack
        /\ ret' = after.ret
        /\ emitted' = IF after.ret # null
                      THEN << redrawCanvas(after), historyUpdate(after) >>
                      ELSE <<>>
        /\ op' = "undo"
        /\ pre' = Snapshot
        /\ netUndos' = IF after.ret # null THEN netUndos + 1 ELSE netUndos
        /\ UNCHANGED <<nextId, now, discarded, cleared, sinceClear, evicted>>
        /\ preRoom' = RoomSnapshot
        /\ UNCHANGED roomVars
        /\ Hear(socket, [event |-> "undo"])

\* Variant of the handler with a slip in it: the result of redo is not
\* tested before the broadcast.
Redo_AlwaysEmits(socket) ==
    LET after == redo(This)
    IN  /\ socket \in connected
        /\ history' = after.history
        /\ redoStack' = after.redoStack
        /\ ret' = after.ret
        /\ emitted' = << redrawCanvas(after), historyUpdate(after) >>
        /\ op' = "redo"
        /\ pre' = Snapshot
        /\ netUndos' = IF after.ret # null THEN netUndos - 1 ELSE netUndos
        /\ UNCHANGED <<nextId, now, discarded, cleared, sinceClear, evicted>>
        /\ preRoom' = RoomSnapshot
        /\ UNCHANGED roomVars
        /\ Hear(socket, [event |-> "redo"])

Redo(socket) ==
    LET after == redo(This)
    IN  /\ socket \in connected
        /\ history' = after.history
        /\ redoStack' = after.redoStack
        /\ ret' = after.ret
        /\ emitted' = IF after.ret # null
                      THEN << redrawCanvas(after), historyUpdate(after) >>
                      ELSE <<>>
        /\ op' = "redo"
        /\ pre' = Snapshot
        /\ netUndos' = IF after.ret # null THEN netUndos - 1 ELSE netUndos
        /\ UNCHANGED <<nextId, now, discarded, cleared, sinceClear, evicted>>
        /\ preRoom' = RoomSnapshot
        /\ UNCHANGED roomVars
        /\ Hear(socket, [event |-> "redo"])

(***************************************************************************)
(* socket.on('clearCanvas').                                               *)
(***************************************************************************)
\* Variant of the handler with a slip in it: socket.broadcast.emit for
\* io.emit, so the requester is not told.
ClearCanvas_ToOthers(socket) ==
    LET after == clearHistory(This)
    IN  /\ socket \in connected
        /\ history' = after.history
        /\ redoStack' = after.redoStack
        /\ ret' = after.ret
        /\ emitted' = << [event |-> "clearCanvas", to |-> "others", from |-> socket],
                         [event |-> "historyUpdate", to |-> "others", from |-> socket,
                          historyCount |-> 0, redoCount |-> 0] >>
        /\ op' = "clearHistory"
        /\ pre' = Snapshot
        /\ cleared' = Range(history) \cup Range(redoStack)
        /\ sinceClear' = TRUE
        /\ netUndos' = 0
        /\ UNCHANGED <<nextId, now, discarded, evicted>>
        /\ preRoom' = RoomSnapshot
        /\ UNCHANGED roomVars
        /\ Hear(socket, [event |-> "clearCanvas"])

ClearCanvas(socket) ==
    LET after == clearHistory(This)
    IN  /\ socket \in connected
        /\ history' = after.history
        /\ redoStack' = after.redoStack
        /\ ret' = after.ret
        /\ emitted' = << [event |-> "clearCanvas", to |-> "all"],
                         [event |-> "historyUpdate", to |-> "all",
                          historyCount |-> 0, redoCount |-> 0] >>
        /\ op' = "clearHistory"
        /\ pre' = Snapshot
        /\ cleared' = Range(history) \cup Range(redoStack)
        /\ sinceClear' = TRUE
        /\ netUndos' = 0
        /\ UNCHANGED <<nextId, now, discarded, evicted>>
        /\ preRoom' = RoomSnapshot
        /\ UNCHANGED roomVars
        /\ Hear(socket, [event |-> "clearCanvas"])

Next ==
    \/ \E socket \in SocketIds, data \in Strokes : DrawingEnd(socket, data)
    \/ \E socket \in SocketIds, type \in DrawingTypes :
          DrawingOther(socket, type, "segment")
    \/ \E socket \in SocketIds : Undo(socket)
    \/ \E socket \in SocketIds : Redo(socket)
    \/ \E socket \in SocketIds : ClearCanvas(socket)

Spec == Init /\ [][Next]_vars

(***************************************************************************)
(* io.on('connection'): the socket is registered, told who it is, sent the *)
(* canvas when there is one and the sizes, and the roster goes to all.     *)
(***************************************************************************)
\* Variant of the handler with a slip in it: the sizes are not sent to the
\* socket that joins.
Connection_NoCounts(socket, random) ==
    /\ socket \notin connected
    /\ joins < MaxJoins
    /\ LET added == addUser(Room, socket, random, now)
           room  == [users |-> added.users, usedColors |-> added.usedColors,
                     userCounter |-> added.userCounter]
           currentState == getState(This)
       IN  /\ users' = added.users
           /\ usedColors' = added.usedColors
           /\ userCounter' = added.userCounter
           /\ issued' = Append(issued, added.ret.name)
           /\ emitted' =
                 << [event |-> "init", to |-> "socket", socket |-> socket,
                     user |-> added.ret] >>
                 \o (IF Len(currentState.history) > 0
                     THEN << redrawCanvasTo(This, socket) >>
                     ELSE << >>)
                 \o << userList(room) >>
    /\ connected' = connected \cup {socket}
    /\ joins' = joins + 1
    /\ who' = socket
    /\ op' = "addUser"
    /\ ret' = null
    /\ pre' = Snapshot
    /\ preRoom' = RoomSnapshot
    /\ UNCHANGED historyVars
    /\ Hear(socket, none)

Connection(socket, random) ==
    /\ socket \notin connected
    /\ joins < MaxJoins
    /\ LET added == addUser(Room, socket, random, now)
           room  == [users |-> added.users, usedColors |-> added.usedColors,
                     userCounter |-> added.userCounter]
           currentState == getState(This)
       IN  /\ users' = added.users
           /\ usedColors' = added.usedColors
           /\ userCounter' = added.userCounter
           /\ issued' = Append(issued, added.ret.name)
           /\ emitted' =
                 << [event |-> "init", to |-> "socket", socket |-> socket,
                     user |-> added.ret] >>
                 \o (IF Len(currentState.history) > 0
                     THEN << redrawCanvasTo(This, socket) >>
                     ELSE << >>)
                 \o << historyUpdateTo(This, socket), userList(room) >>
    /\ connected' = connected \cup {socket}
    /\ joins' = joins + 1
    /\ who' = socket
    /\ op' = "addUser"
    /\ ret' = null
    /\ pre' = Snapshot
    /\ preRoom' = RoomSnapshot
    /\ UNCHANGED historyVars
    /\ Hear(socket, none)

(***************************************************************************)
(* socket.on('disconnect'): the connection is closed already; the user is  *)
(* removed and the roster goes to the connections that remain.             *)
(***************************************************************************)
\* Variant of the handler with a slip in it: the canvas is reset when the
\* last participant leaves.
Disconnect_ResetsWhenEmpty(socket) ==
    /\ socket \in connected
    /\ socket \in Joiners \cup {BurstSocketIds[i] : i \in 1..MaxGone}
    /\ LET room == removeUser(Room, socket)
       IN  /\ users' = room.users
           /\ usedColors' = room.usedColors
           /\ userCounter' = room.userCounter
           /\ emitted' = << userList(room) >>
           /\ history' = IF Len(room.users) = 0 THEN <<>> ELSE history
           /\ redoStack' = IF Len(room.users) = 0 THEN <<>> ELSE redoStack
    /\ connected' = connected \ {socket}
    /\ who' = socket
    /\ op' = "removeUser"
    /\ ret' = null
    /\ pre' = Snapshot
    /\ preRoom' = RoomSnapshot
    /\ UNCHANGED <<issued, joins>>
    /\ UNCHANGED <<nextId, now, discarded, cleared, sinceClear, netUndos, evicted>>
    /\ Hear(socket, Sent(socket))

Disconnect(socket) ==
    /\ socket \in connected
    /\ socket \in Joiners \cup {BurstSocketIds[i] : i \in 1..MaxGone}
    /\ LET room == removeUser(Room, socket)
       IN  /\ users' = room.users
           /\ usedColors' = room.usedColors
           /\ userCounter' = room.userCounter
           /\ emitted' = << userList(room) >>
    /\ connected' = connected \ {socket}
    /\ who' = socket
    /\ op' = "removeUser"
    /\ ret' = null
    /\ pre' = Snapshot
    /\ preRoom' = RoomSnapshot
    /\ UNCHANGED <<issued, joins>>
    /\ UNCHANGED historyVars
    /\ Hear(socket, Sent(socket))

(***************************************************************************)
(* RoomManager.removeUser called for an identifier whose connection is not *)
(* open (never registered, or removed already).                            *)
(***************************************************************************)
Unregister(socketId) ==
    /\ socketId \notin connected
    /\ LET room == removeUser(Room, socketId)
       IN  /\ users' = room.users
           /\ usedColors' = room.usedColors
           /\ userCounter' = room.userCounter
    /\ emitted' = << >>
    /\ who' = socketId
    /\ op' = "unregister"
    /\ ret' = null
    /\ pre' = Snapshot
    /\ preRoom' = RoomSnapshot
    /\ UNCHANGED <<connected, issued, joins>>
    /\ UNCHANGED historyVars
    /\ UNCHANGED clientVars

(***************************************************************************)
(* socket.on('requestCanvasState').                                        *)
(***************************************************************************)
\* Variant of the handler with a slip in it: io.emit for socket.emit.
RequestCanvasState_ToAll(socket) ==
    /\ socket \in connected
    /\ emitted' = << [event |-> "canvasState", to |-> "all",
                      state |-> getState(This)] >>
    /\ who' = socket
    /\ op' = "getCanvasState"
    /\ ret' = null
    /\ pre' = Snapshot
    /\ preRoom' = RoomSnapshot
    /\ UNCHANGED <<connected, users, usedColors, userCounter, issued, joins>>
    /\ UNCHANGED historyVars
    /\ UNCHANGED clientVars

RequestCanvasState(socket) ==
    /\ socket \in connected
    /\ emitted' = << [event |-> "canvasState", to |-> "socket", socket |-> socket,
                      state |-> getState(This)] >>
    /\ who' = socket
    /\ op' = "getCanvasState"
    /\ ret' = null
    /\ pre' = Snapshot
    /\ preRoom' = RoomSnapshot
    /\ UNCHANGED <<connected, users, usedColors, userCounter, issued, joins>>
    /\ UNCHANGED historyVars
    /\ UNCHANGED clientVars

(***************************************************************************)
(* socket.on('cursorMove') and socket.on('ping').  userData is the user    *)
(* object addUser returned when the connection was opened.                 *)
(***************************************************************************)
CursorMove(socket, position) ==
    /\ socket \in connected
    /\ emitted' = << [event |-> "cursorMove", to |-> "others", from |-> socket,
                      userId |-> socket, x |-> position.x, y |-> position.y,
                      color |-> userData(socket).color,
                      userName |-> userData(socket).name] >>
    /\ who' = socket
    /\ op' = "cursorMove"
    /\ ret' = null
    /\ pre' = Snapshot
    /\ preRoom' = RoomSnapshot
    /\ UNCHANGED <<connected, users, usedColors, userCounter, issued, joins>>
    /\ UNCHANGED historyVars
    /\ UNCHANGED clientVars

Ping(socket) ==
    /\ socket \in connected
    /\ emitted' = << [event |-> "pong", to |-> "socket", socket |-> socket] >>
    /\ who' = socket
    /\ op' = "ping"
    /\ ret' = null
    /\ pre' = Snapshot
    /\ preRoom' = RoomSnapshot
    /\ UNCHANGED <<connected, users, usedColors, userCounter, issued, joins>>
    /\ UNCHANGED historyVars
    /\ UNCHANGED clientVars

RegistryNext ==
    \/ \E socket \in Joiners, random \in RandomColors : Connection(socket, random)
    \/ \E socket \in connected : Disconnect(socket)
    \/ \E socketId \in Joiners : Unregister(socketId)
    \/ \E socket \in Joiners \cup {BurstSocketIds[1]} : RequestCanvasState(socket)

RegistrySpec == RegistryInit /\ [][RegistryNext]_vars

(***************************************************************************)
(* The requests that are no commit, undo, redo or clear, sent to a server  *)
(* that holds strokes and starts with no participant.                      *)
(***************************************************************************)
QuietInit ==
    /\ HistoryStart({PreStrokes}, {0, 1})
    /\ RoomStart(BurstSocketIds, 0, "none")
    /\ NoPages

QuietNext ==
    \/ \E socket \in Joiners, random \in RandomColors : Connection(socket, random)
    \/ \E socket \in connected : Disconnect(socket)
    \/ \E socket \in Joiners : RequestCanvasState(socket)
    \/ \E socket \in Joiners, type \in DrawingTypes :
          DrawingOther(socket, type, "segment")
    \/ \E socket \in Joiners, position \in Positions : CursorMove(socket, position)
    \/ \E socket \in Joiners : Ping(socket)

QuietSpec == QuietInit /\ [][QuietNext]_vars

(***************************************************************************)
(* Two pages, s1 and s2, and the server between them.  A listener of a     *)
(* page draws on the page's own canvas and writes a request to the socket  *)
(* when the socket is connected; the server handles the request in a later *)
(* step, and each of its messages is delivered in a later step again.  A   *)
(* page writes its next request when the last one was handled.  The dot    *)
(* startDrawing draws lies under the round cap of the path's first line    *)
(* and is left out; a gesture has two points at least.  When a connection  *)
(* is lost the page keeps its canvas and what was on the way to it is      *)
(* gone; when it is made again the page's 'connect' listener marks the     *)
(* socket connected and writes no request.                                 *)
(***************************************************************************)
\* The stroke in the log and on both canvases when the pages are first
\* looked at, drawn by s0 before it left.
Earlier ==
    [id |-> Prefill, userId |-> "s0",
     data |-> [path |-> <<"s0", 1>>, points |-> 2, color |-> currentColor],
     timestamp |-> 0]

ClientInit ==
    /\ history = << Earlier >>
    /\ redoStack = << >>
    /\ netUndos = 0
    /\ nextId = Prefill + 1
    /\ now = 0
    /\ op = "constructor"
    /\ ret = null
    /\ emitted = << >>
    /\ pre = [history |-> << >>, redoStack |-> << >>, op |-> "constructor"]
    /\ discarded = {}
    /\ cleared = {}
    /\ evicted = {}
    /\ sinceClear = FALSE
    /\ RoomStart(<<"s0", "s1", "s2">>, 3, "s0")
    /\ canvas = [c \in Pages |-> MarksOf(history)]
    /\ inbox = [c \in Pages |-> << >>]
    /\ pen = [c \in Pages |->
                [isDrawing |-> FALSE, strokes |-> 0, points |-> 0, sent |-> none]]
    /\ toolbar = << >>
    /\ logs = {<< >>, history}

\* The server and the other pages stand still while a listener runs.
ServerIdle ==
    /\ UNCHANGED historyVars
    /\ UNCHANGED roomVars
    /\ UNCHANGED <<op, ret, emitted, pre, preRoom, logs>>

\* wsManager.emit*: the request is written when the socket is connected.
Emit(c, request) == IF c \in connected THEN request ELSE none

\* mousedown.
startDrawing(c) ==
    /\ ~pen[c].isDrawing
    /\ pen[c].sent = none
    /\ pen[c].strokes < MaxGestures
    /\ LET path == <<c, pen[c].strokes + 1>>
       IN  pen' = [pen EXCEPT ![c] =
                     [isDrawing |-> TRUE, strokes |-> pen[c].strokes + 1, points |-> 1,
                      sent |-> Emit(c, [event |-> "drawing", type |-> "start",
                                        data |-> [path |-> path,
                                                  color |-> currentColor]])]]
    /\ UNCHANGED <<canvas, inbox, toolbar>>
    /\ ServerIdle

\* mousemove while drawing: the line from the last point is drawn here and
\* sent with its fromX, fromY, toX and toY, and no type.
draw(c) ==
    /\ pen[c].isDrawing
    /\ pen[c].sent = none
    /\ pen[c].points < MaxPoints
    /\ LET path == <<c, pen[c].strokes>>
           segment == pen[c].points
       IN  /\ canvas' = [p \in DOMAIN canvas |->
                           IF p = c THEN canvas[p] \cup {<<path, segment>>}
                                    ELSE canvas[p]]
           /\ pen' = [pen EXCEPT ![c] =
                        [@ EXCEPT !.points = segment + 1,
                                  !.sent = Emit(c, [event |-> "drawing", type |-> "draw",
                                                    data |-> [path |-> path,
                                                              segment |-> segment,
                                                              color |-> currentColor]])]]
    /\ UNCHANGED <<inbox, toolbar>>
    /\ ServerIdle

\* mouseup or mouseout: the whole path is sent with type 'end' when a
\* gesture is going on, and nothing happens when none is.  The variant has
\* a slip in it: the test of isDrawing is missing.
stopDrawing_NoGuard(c) ==
    /\ pen[c].sent = none
    /\ pen' = [pen EXCEPT ![c] =
                 [@ EXCEPT !.isDrawing = FALSE, !.points = 0,
                           !.sent = Emit(c, [event |-> "drawing", type |-> "end",
                                             data |-> [path |-> <<c, pen[c].strokes>>,
                                                       points |-> pen[c].points,
                                                       color |-> currentColor]])]]
    /\ UNCHANGED <<canvas, inbox, toolbar>>
    /\ ServerIdle

stopDrawing(c) ==
    /\ pen[c].sent = none
    /\ IF pen[c].isDrawing
       THEN /\ pen[c].points >= 2
            /\ pen' = [pen EXCEPT ![c] =
                         [@ EXCEPT !.isDrawing = FALSE, !.points = 0,
                                   !.sent = Emit(c, [event |-> "drawing", type |-> "end",
                                                     data |-> [path |-> <<c, pen[c].strokes>>,
                                                               points |-> pen[c].points,
                                                               color |-> currentColor]])]]
       ELSE UNCHANGED pen
    /\ UNCHANGED <<canvas, inbox, toolbar>>
    /\ ServerIdle

\* Click on Undo or Redo (or Ctrl+Z, Ctrl+Y).
undoBtn(c) ==
    /\ c \in connected
    /\ pen[c].sent = none
    /\ pen' = [pen EXCEPT ![c] = [@ EXCEPT !.sent = [event |-> "undo"]]]
    /\ UNCHANGED <<canvas, inbox, toolbar>>
    /\ ServerIdle

redoBtn(c) ==
    /\ c \in connected
    /\ pen[c].sent = none
    /\ pen' = [pen EXCEPT ![c] = [@ EXCEPT !.sent = [event |-> "redo"]]]
    /\ UNCHANGED <<canvas, inbox, toolbar>>
    /\ ServerIdle

\* Click on Clear, confirmed: the page clears its own canvas first.
clearBtn(c) ==
    /\ pen[c].sent = none
    /\ canvas[c] # {}
    /\ canvas' = [canvas EXCEPT ![c] = {}]
    /\ pen' = [pen EXCEPT ![c] = [@ EXCEPT !.sent = Emit(c, [event |-> "clearCanvas"])]]
    /\ UNCHANGED <<inbox, toolbar>>
    /\ ServerIdle

\* The next message of the server arrives and its callback runs.
onMessage(c) ==
    /\ inbox[c] # << >>
    /\ canvas' = [p \in DOMAIN canvas |->
                     IF p = c THEN Callback(canvas[p], Head(inbox[c])) ELSE canvas[p]]
    /\ toolbar' = [p \in DOMAIN toolbar |->
                      IF p = c THEN onHistoryUpdate(toolbar[p], Head(inbox[c]))
                               ELSE toolbar[p]]
    /\ inbox' = [inbox EXCEPT ![c] = Tail(@)]
    /\ UNCHANGED pen
    /\ ServerIdle

\* The data of the 'drawing' request of a type that page c has written.
Written(c, type) ==
    IF pen[c].sent.event = "drawing" /\ pen[c].sent.type = type
    THEN {pen[c].sent.data}
    ELSE {}

\* The page that draws and whose connection is lost and made again, and
\* the page that uses the buttons.
Drawers == {"s1"}
Editors == {"s2"}

ClientNext ==
    \/ \E c \in Drawers : startDrawing(c)
    \/ \E c \in Drawers : draw(c)
    \/ \E c \in Drawers : stopDrawing(c)
    \/ \E c \in Editors : undoBtn(c)
    \/ \E c \in Editors : redoBtn(c)
    \/ \E c \in Editors : clearBtn(c)
    \/ \E c \in Pages : onMessage(c)
    \/ \E c \in Drawers : \E data \in Written(c, "end") : DrawingEnd(c, data)
    \/ \E c \in Drawers, type \in DrawingTypes :
          \E data \in Written(c, type) : DrawingOther(c, type, data)
    \/ \E c \in Editors : Undo(c)
    \/ \E c \in Editors : Redo(c)
    \/ \E c \in Editors : ClearCanvas(c)
    \/ \E c \in Drawers : Disconnect(c)
    \/ \E c \in Drawers, random \in RandomColors : Connection(c, random)

ClientSpec == ClientInit /\ [][ClientNext]_vars

(***************************************************************************)
(* One page and its gestures: the mouse of page s1 and the connection of   *)
(* its socket; no canvas and no toolbar is followed.                       *)
(***************************************************************************)
ServerStart ==
    /\ redoStack = << >>
    /\ netUndos = 0
    /\ nextId = Prefill + 1
    /\ now = 0
    /\ op = "constructor"
    /\ ret = null
    /\ emitted = << >>
    /\ pre = [history |-> << >>, redoStack |-> << >>, op |-> "constructor"]
    /\ discarded = {}
    /\ cleared = {}
    /\ evicted = {}
    /\ sinceClear = FALSE

GestureInit ==
    /\ history = << Earlier >>
    /\ ServerStart
    /\ RoomStart(<<"s0", "s1", "s2">>, 3, "s0")
    /\ canvas = << >>
    /\ toolbar = << >>
    /\ inbox = [c \in Pages |-> << >>]
    /\ pen = [c \in Pages |->
                [isDrawing |-> FALSE, strokes |-> 0, points |-> 0, sent |-> none]]
    /\ logs = {}

GestureNext ==
    \/ \E c \in Drawers : startDrawing(c)
    \/ \E c \in Drawers : draw(c)
    \/ \E c \in Drawers : stopDrawing(c)
    \/ \E c \in Drawers : \E data \in Written(c, "end") : DrawingEnd(c, data)
    \/ \E c \in Drawers, type \in DrawingTypes :
          \E data \in Written(c, type) : DrawingOther(c, type, data)
    \/ \E c \in Drawers : Disconnect(c)
    \/ \E c \in Drawers, random \in RandomColors : Connection(c, random)

GestureSpec == GestureInit /\ [][GestureNext]_vars

(***************************************************************************)
(* The toolbars of the pages s1, whose connection is lost and made again,  *)
(* and s2, while s3 commits strokes, undoes, redoes and clears.            *)
(***************************************************************************)
Actors == {"s3"}

\* How many times the connection of a page is made again.
MaxReturns == 1

ToolbarInit ==
    /\ HistoryStart({0}, {0})
    /\ RoomStart(<<"s1", "s2", "s3">>, 3, "none")
    /\ canvas = << >>
    /\ pen = << >>
    /\ inbox = [c \in Pages |-> << >>]
    /\ toolbar = [c \in Pages |->
                    [historyCount |-> Len(history), redoCount |-> Len(redoStack)]]
    /\ logs = {}

ToolbarNext ==
    \/ \E socket \in Actors, data \in Strokes : DrawingEnd(socket, data)
    \/ \E socket \in Actors : Undo(socket)
    \/ \E socket \in Actors : Redo(socket)
    \/ \E socket \in Actors : ClearCanvas(socket)
    \/ \E c \in Drawers : Disconnect(c)
    \/ \E c \in Drawers, random \in RandomColors :
          joins < MaxReturns /\ Connection(c, random)
    \/ \E c \in Pages : onMessage(c)

ToolbarSpec == ToolbarInit /\ [][ToolbarNext]_vars

(***************************************************************************)
(* Properties of the history coordinator.                                  *)
(***************************************************************************)
Min(a, b) == IF a < b THEN a ELSE b

\* The action object the last 'drawing' handler of type 'end' committed:
\* the sender and payload of the relayed event, stamped with the clock.
Committed ==
    [id |-> nextId - 1, userId |-> emitted[2].from, data |-> emitted[2].data,
     timestamp |-> now]

Stored == Range(history) \cup Range(redoStack)

\* C1: in every reachable state the history log holds at most
\* maxHistorySize (100) stroke actions.
C1_HistoryBounded == Len(history) <= maxHistorySize

\* A redo has just refilled the history log to its full 100 entries.
C1_Witness ==
    /\ op = "redo"
    /\ ret # null
    /\ Len(history) = maxHistorySize

\* C2: after commit(A) the history length is min(prior length + 1, 100), A is
\* the last entry, at prior length 100 exactly the oldest prior entry is gone
\* and the rest keep their order, and below 100 nothing is removed.
C2_CommitAppendsAndEvictsOldest ==
    op = "addAction" =>
        /\ Len(history) = Min(Len(pre.history) + 1, maxHistorySize)
        /\ Last(history) = Committed
        /\ IF Len(pre.history) = maxHistorySize
           THEN /\ history = Append(Tail(pre.history), Committed)
                /\ pre.history[1] \notin Range(history)
           ELSE history = Append(pre.history, Committed)

\* A commit found the log full and evicted its oldest entry, which the other
\* connection had authored.
C2_Witness ==
    /\ op = "addAction"
    /\ Len(pre.history) = maxHistorySize
    /\ pre.history[1] \notin Range(history)
    /\ pre.history[1].userId # Committed.userId

\* C3: immediately after a commit the redo stack is empty, whatever it held.
C3_CommitEmptiesRedo == op = "addAction" => redoStack = <<>>

\* A commit was processed while two undone actions were waiting.
C3_Witness ==
    /\ op = "addAction"
    /\ Len(pre.redoStack) >= 2
    /\ redoStack = <<>>

\* C4: undo on a non-empty history log removes exactly its last action,
\* pushes that action on top of the redo stack and returns it; every other
\* entry of both stacks stays, in order.
C4_UndoMovesLast ==
    (op = "undo" /\ Len(pre.history) > 0) =>
        /\ history = Front(pre.history)
        /\ redoStack = Append(pre.redoStack, Last(pre.history))
        /\ ret = Last(pre.history)

\* An undo ran with other entries left in the log and one already undone.
C4_Witness ==
    /\ op = "undo"
    /\ Len(pre.history) >= 2
    /\ Len(pre.redoStack) >= 1
    /\ ret = Last(pre.history)

\* C5: undo on an empty history log returns null and changes neither stack,
\* however often it is repeated.
C5_UndoOnEmptyIsNoOp ==
    (op = "undo" /\ Len(pre.history) = 0) =>
        /\ ret = null
        /\ history = pre.history
        /\ redoStack = pre.redoStack

\* Two undos in a row with one item ever committed: the second found the
\* log empty and left the undone item in the redo stack.
C5_Witness ==
    /\ op = "undo"
    /\ pre.op = "undo"
    /\ Len(pre.history) = 0
    /\ ret = null
    /\ Len(redoStack) = 1

\* C6: redo on an empty redo stack returns null and changes neither stack;
\* otherwise it removes exactly the top of the redo stack, appends it to the
\* history log and returns it.
C6_RedoMovesTop ==
    op = "redo" =>
        IF Len(pre.redoStack) = 0
        THEN /\ ret = null
             /\ history = pre.history
             /\ redoStack = pre.redoStack
        ELSE /\ ret = Last(pre.redoStack)
             /\ history = Append(pre.history, Last(pre.redoStack))
             /\ redoStack = Front(pre.redoStack)

\* A redo ran with two undone actions waiting and took the later one.
C6_Witness ==
    /\ op = "redo"
    /\ Len(pre.redoStack) >= 2
    /\ ret = Last(pre.redoStack)
    /\ Len(redoStack) = Len(pre.redoStack) - 1

\* C7: a successful undo immediately followed by a redo leaves the history
\* log and the redo stack exactly as they were before the undo.
C7_UndoRedoRoundTrip ==
    [][(op = "undo" /\ ret # null /\ op' = "redo")
          => (history' = pre.history /\ redoStack' = pre.redoStack)]_vars

\* A redo directly after a successful undo, with an older undone action
\* still below it in the redo stack.
C7_Witness ==
    /\ op = "redo"
    /\ pre.op = "undo"
    /\ ret # null
    /\ Len(pre.history) >= 1
    /\ Len(redoStack) >= 1

\* C8: clear can always be requested and leaves both stacks empty.
C8_ClearEmptiesBoth ==
    /\ \A socket \in SocketIds : ENABLED ClearCanvas(socket)
    /\ op = "clearHistory" => (history = <<>> /\ redoStack = <<>>)

\* A clear ran while both stacks held actions.
C8_Witness ==
    /\ op = "clearHistory"
    /\ Len(pre.history) > 0
    /\ Len(pre.redoStack) > 0
    /\ history = <<>>
    /\ redoStack = <<>>

\* C9: from a clear until the next commit both stacks stay empty, no action
\* that existed before the clear is stored or returned, and every undo and
\* redo returns null and announces nothing.
C9_ClearNotUndoable ==
    sinceClear =>
        /\ history = <<>>
        /\ redoStack = <<>>
        /\ cleared \cap Stored = {}
        /\ ret \notin cleared
        /\ op \in {"undo", "redo"} => (ret = null /\ emitted = <<>>)

\* After a clear that dropped actions, an undo and then a redo were tried.
C9_Witness ==
    /\ sinceClear
    /\ cleared # {}
    /\ op = "redo"
    /\ pre.op = "undo"

\* C10: an action that was in the redo stack when a commit was processed is
\* in neither stack in any later state and is not what a later undo or redo
\* returns.
C10_DiscardedRedoIsLost ==
    /\ discarded \cap Stored = {}
    /\ ret \notin discarded

\* After a commit dropped an undone action, a later undo and redo moved
\* another action to the redo stack and back.
C10_Witness ==
    /\ discarded # {}
    /\ op = "redo"
    /\ pre.op = "undo"
    /\ ret # null

(***************************************************************************)
(* Properties of the broadcasts and of the session registry.               *)
(***************************************************************************)
ToEveryone(m) == Audience(m, connected) = connected

LiveIds == {users[i].userId : i \in 1..Len(users)}

\* C11: an undo request that finds the history log non-empty sends every
\* open connection a full replay equal to the log after the undo and then
\* the sizes after the undo; one that finds it empty sends nothing.
C11_UndoBroadcast ==
    op = "undo" =>
        IF Len(pre.history) > 0
        THEN /\ Len(emitted) = 2
             /\ emitted[1].event = "redrawCanvas"
             /\ ToEveryone(emitted[1])
             /\ emitted[1].actions = history
             /\ emitted[2].event = "historyUpdate"
             /\ ToEveryone(emitted[2])
             /\ emitted[2].historyCount = Len(history)
             /\ emitted[2].redoCount = Len(redoStack)
        ELSE emitted = <<>>

\* The second undo in a row was broadcast with a non-empty log left.
C11_Witness ==
    /\ op = "undo"
    /\ Len(pre.history) > 1
    /\ Len(emitted) = 2
    /\ emitted[2].redoCount = 2
    /\ connected = {"s1", "s2"}

\* C12: a redo request that finds the redo stack non-empty sends every open
\* connection a full replay equal to the log after the redo and the sizes
\* after the redo; one that finds it empty sends nothing.
C12_RedoBroadcast ==
    op = "redo" =>
        IF Len(pre.redoStack) > 0
        THEN /\ Len(emitted) = 2
             /\ emitted[1].event = "redrawCanvas"
             /\ ToEveryone(emitted[1])
             /\ emitted[1].actions = history
             /\ emitted[2].event = "historyUpdate"
             /\ ToEveryone(emitted[2])
             /\ emitted[2].historyCount = Len(history)
             /\ emitted[2].redoCount = Len(redoStack)
        ELSE emitted = <<>>

\* A redo was broadcast while another undone action stayed in the stack.
C12_Witness ==
    /\ op = "redo"
    /\ Len(pre.redoStack) = 2
    /\ Len(emitted) = 2
    /\ emitted[2].redoCount = 1
    /\ connected = {"s1", "s2"}

\* C13: every clear request sends every open connection the canvas-cleared
\* message and sizes 0 and 0, which are the lengths after the clear.
C13_ClearBroadcast ==
    op = "clearHistory" =>
        /\ Len(emitted) = 2
        /\ emitted[1].event = "clearCanvas"
        /\ ToEveryone(emitted[1])
        /\ emitted[2].event = "historyUpdate"
        /\ ToEveryone(emitted[2])
        /\ emitted[2].historyCount = 0
        /\ emitted[2].redoCount = 0
        /\ emitted[2].historyCount = Len(history)
        /\ emitted[2].redoCount = Len(redoStack)

\* A clear of a canvas with strokes in both stacks was announced.
C13_Witness ==
    /\ op = "clearHistory"
    /\ Len(pre.history) > 0
    /\ Len(pre.redoStack) > 0
    /\ Len(emitted) = 2
    /\ connected = {"s1", "s2"}

\* C14: every stroke commit sends every open connection, the author
\* included, the sizes after the commit; the redo size is 0.
C14_CommitAnnouncesSizes ==
    op = "addAction" =>
        \E i \in 1..Len(emitted) :
            /\ emitted[i].event = "historyUpdate"
            /\ ToEveryone(emitted[i])
            /\ Last(history).userId \in Audience(emitted[i], connected)
            /\ emitted[i].historyCount = Len(history)
            /\ emitted[i].redoCount = Len(redoStack)
            /\ emitted[i].redoCount = 0

\* A commit that dropped an undone action and evicted nothing was announced.
C14_Witness ==
    /\ op = "addAction"
    /\ Len(pre.redoStack) > 0
    /\ emitted[1].event = "historyUpdate"
    /\ emitted[1].historyCount = Len(pre.history) + 1
    /\ Last(history).userId \in connected

\* C15: every join registers the connection, sends the roster to every
\* open connection, and sends a full replay of the current history log,
\* empty or not, to the joining connection and to no other.
C15_JoinDeliversSnapshot ==
    op = "addUser" =>
        /\ who \in LiveIds
        /\ \E i \in 1..Len(emitted) :
              /\ emitted[i].event = "userList"
              /\ ToEveryone(emitted[i])
        /\ \E i \in 1..Len(emitted) :
              /\ emitted[i].event = "redrawCanvas"
              /\ Audience(emitted[i], connected) = {who}
              /\ emitted[i].actions = history

\* C16: the roster holds exactly one entry {userId, name, color} for each
\* open connection and none for a closed one, and the roster sent after a
\* join or a leave is the roster after it.
C16_RosterIsConnected ==
    /\ LiveIds = connected
    /\ Len(users) = Cardinality(connected)
    /\ \A i \in 1..Len(getUsers(Room)) :
          DOMAIN getUsers(Room)[i] = {"userId", "name", "color"}
    /\ op \in {"addUser", "removeUser"} =>
          /\ Len(emitted) > 0
          /\ Last(emitted).event = "userList"
          /\ ToEveryone(Last(emitted))
          /\ Last(emitted).users = getUsers(Room)
          /\ {Last(emitted).users[i].userId : i \in 1..Len(Last(emitted).users)}
                = connected
          /\ op = "addUser" => who \in connected
          /\ op = "removeUser" => who \notin connected

\* A participant left while others, one of them on a fallback color, stayed.
C16_Witness ==
    /\ op = "removeUser"
    /\ who \in preRoom.connected
    /\ Len(users) >= 12
    /\ \E i \in 1..Len(users) : users[i].color \in RandomColors

\* C17: a state request sends the history log and its length to the
\* requester alone and changes neither stack nor the registry.
C17_StateRequest ==
    op = "getCanvasState" =>
        /\ Len(emitted) = 1
        /\ emitted[1].event = "canvasState"
        /\ Audience(emitted[1], connected) = {who}
        /\ emitted[1].state = [history |-> history, historyLength |-> Len(history)]
        /\ history = pre.history
        /\ redoStack = pre.redoStack
        /\ RoomSnapshot = [preRoom EXCEPT !.who = who]

\* A request was served with strokes in both stacks and others connected.
C17_Witness ==
    /\ op = "getCanvasState"
    /\ Len(history) > 0
    /\ Len(redoStack) > 0
    /\ Cardinality(connected) >= 2
    /\ Len(emitted) = 1

\* C18: while a palette color is held by no live participant, the color a
\* join returns is held by no other live participant.  Colors are the
\* strings the registry stores and compares.
C18_NoDuplicateColor ==
    op = "addUser" =>
        LET others == {preRoom.users[i].color : i \in 1..Len(preRoom.users)}
            got    == emitted[1].user.color
            palette == Range(userColors)
        IN  (palette \ others # {}) => got \notin others

\* A join while twelve participants were live, one of them on a fallback
\* color, and a palette color had been given back.
C18_Witness ==
    /\ op = "addUser"
    /\ Len(preRoom.users) >= 12
    /\ \E i \in 1..Len(preRoom.users) : preRoom.users[i].color \in RandomColors
    /\ emitted[1].user.color \in Range(userColors)

\* C19: the numbers in the names returned by addUser grow strictly, also
\* across leaves, so no name is given twice.
C19_NamesStrictlyIncrease ==
    /\ \A i, j \in 1..Len(issued) : i < j => issued[i][2] < issued[j][2]
    /\ \A i \in 1..Len(issued) : issued[i][2] < userCounter
    /\ \A i \in 1..Len(users) : users[i].name \in Range(issued)

\* A join after a participant with an earlier name had left.
C19_Witness ==
    /\ op = "addUser"
    /\ joins >= 2
    /\ \E i \in 1..Len(issued) :
          /\ \A k \in 1..Len(users) : users[k].name # issued[i]
          /\ issued[i][2] < Last(users).name[2]

\* C20: removeUser for an identifier that is not registered can always be
\* called and changes nothing; after a removal a second call for the same
\* identifier does no more.
C20_UnregisterUnknownIsNoOp ==
    /\ \A socketId \in Joiners \ connected : ENABLED Unregister(socketId)
    /\ op = "unregister" =>
          /\ users = preRoom.users
          /\ usedColors = preRoom.usedColors
          /\ userCounter = preRoom.userCounter
          /\ connected = preRoom.connected
          /\ emitted = <<>>

\* removeUser was called again for the participant that had just left.
C20_Witness ==
    /\ op = "unregister"
    /\ pre.op = "removeUser"
    /\ preRoom.who = who
    /\ Len(users) > 0

(***************************************************************************)
(* Properties of the palette, of requests that race, and of the actions    *)
(* themselves.                                                             *)
(***************************************************************************)
Held(seq) == {seq[i].color : i \in 1..Len(seq)}

\* Place in the palette of its first color that is not in held, 0 for none.
FirstFree(held) ==
    LET free == {i \in 1..Len(userColors) : userColors[i] \notin held}
    IN  IF free = {} THEN 0 ELSE CHOOSE i \in free : \A j \in free : i <= j

\* C21: a join is given the first color in palette order that no live
\* participant holds, or, with all twelve held, a synthesized color, and
\* it is registered all the same; the palette color of a participant who
\* leaves is held by no one afterwards and is on offer to the next join.
\* Colors are the strings the registry stores and compares.
C21_FirstFreeColor ==
    /\ op = "addUser" =>
          LET held == Held(preRoom.users)
              got  == emitted[1].user
          IN  /\ got.userId = who
              /\ who \in LiveIds
              /\ users[IndexOf(users, who)] = got
              /\ Len(users) = Len(preRoom.users) + 1
              /\ IF FirstFree(held) # 0
                 THEN got.color = userColors[FirstFree(held)]
                 ELSE /\ got.color \in RandomColors
                      /\ Len(preRoom.users) >= Len(userColors)
    /\ op = "removeUser" =>
          LET c == preRoom.users[IndexOf(preRoom.users, who)].color
          IN  c \in Range(userColors) =>
                 /\ c \notin Held(users)
                 /\ c \notin usedColors
                 /\ \A random \in RandomColors :
                       \E i \in 1..Len(userColors) :
                          /\ getAvailableColor(Room, random).color = userColors[i]
                          /\ i = FirstFree(Held(users))
                          /\ \A j \in 1..Len(userColors) : userColors[j] = c => i <= j

\* The thirteenth participant joined while all twelve palette colors were
\* held and was given a synthesized color.
C21_Witness ==
    /\ op = "addUser"
    /\ Len(preRoom.users) = Len(userColors)
    /\ FirstFree(Held(preRoom.users)) = 0
    /\ Len(users) = Len(userColors) + 1
    /\ Last(users).color \in RandomColors

\* C22: of two undo requests handled one after the other each removes one
\* action if the log is non-empty when it is handled: against a log of
\* two or more the two most recent actions go, against a log of one the
\* action goes and the second request returns null and announces nothing;
\* and the second step is the step of an undo request of every open
\* connection, so the outcome does not depend on which of the two
\* requests is handled first.
C22_TwoUndosInArrivalOrder ==
    [][(op = "undo" /\ op' = "undo") =>
          LET n == Len(pre.history)
          IN  /\ IF n >= 2
                 THEN /\ ret = pre.history[n]
                      /\ ret' = pre.history[n - 1]
                      /\ history' = SubSeq(pre.history, 1, n - 2)
                      /\ redoStack' =
                            pre.redoStack \o << pre.history[n], pre.history[n - 1] >>
                 ELSE IF n = 1
                 THEN /\ ret = pre.history[1]
                      /\ ret' = null
                      /\ emitted' = <<>>
                      /\ history' = <<>>
                      /\ redoStack' = Append(pre.redoStack, pre.history[1])
                 ELSE /\ ret = null
                      /\ ret' = null
                      /\ history' = pre.history
                      /\ redoStack' = pre.redoStack
              /\ \A socket \in connected : Undo(socket)]_vars

\* Two undo requests in a row took the two most recent actions, which two
\* different participants had drawn.
C22_Witness ==
    /\ op = "undo"
    /\ pre.op = "undo"
    /\ ret # null
    /\ Len(redoStack) = 2
    /\ redoStack[1].userId # redoStack[2].userId
    /\ history = Front(pre.history)

\* C24: a 'drawing' event of type 'end' adds exactly one entry to the
\* history log; a 'drawing' event of any other type adds none.
C24_OnlyEndCommits ==
    /\ op = "addAction" =>
          /\ Last(emitted).event = "drawing"
          /\ Last(emitted).type = "end"
          /\ Range(history) \ Range(pre.history) = {Committed}
          /\ Len(history) = Min(Len(pre.history) + 1, maxHistorySize)
    /\ op = "none" =>
          /\ emitted[1].event = "drawing"
          /\ emitted[1].type # "end"
          /\ history = pre.history
          /\ redoStack = pre.redoStack

\* A move followed the start of a gesture and the log kept its strokes.
C24_Witness ==
    /\ op = "none"
    /\ pre.op = "none"
    /\ emitted[1].type = "draw"
    /\ Len(history) > 0
    /\ history = pre.history

\* C25: a pointer move of a gesture in progress, a cursor message, a ping,
\* a state request, a join and a leave each leave the history log and the
\* redo stack as they were, also the leave of the last participant.
C25_OnlyFourRequestsMutate ==
    op \in {"none", "cursorMove", "ping", "getCanvasState",
            "addUser", "removeUser"} =>
        /\ history = pre.history
        /\ redoStack = pre.redoStack

\* The last participant left and the strokes, undone ones too, are kept.
C25_Witness ==
    /\ op = "removeUser"
    /\ connected = {}
    /\ preRoom.connected # {}
    /\ Len(history) > 0
    /\ Len(redoStack) > 0
    /\ pre.op \in {"none", "cursorMove", "ping"}

\* C27: every action in the history log or the redo stack after a step was
\* there before it with the same author, timestamp and payload, or is the
\* action the step committed.
C27_ActionsImmutable ==
    [][\A a \in Range(history') \cup Range(redoStack') :
          \/ a \in Stored
          \/ op' = "addAction" /\ a = Committed']_vars

\* An action committed at an earlier reading of the clock was undone and
\* redone and is in the log as it was.
C27_Witness ==
    /\ op = "redo"
    /\ pre.op = "undo"
    /\ ret # null
    /\ ret = Last(history)
    /\ ret.timestamp < now
    /\ ret.id > Prefill

\* C28: in every reachable state each operation of the coordinator and of
\* the registry returns: undo and redo an action of their stack, or null
\* exactly when it is empty; commit a log of min(length + 1, 100) entries;
\* clear two empty stacks; the snapshot the log and its length; register
\* the new participant; unregister the registry without that identifier,
\* known or not; and the roster one entry per participant.
C28_NeverFails ==
    LET u == undo(This)
        r == redo(This)
        c == clearHistory(This)
        g == getState(This)
    IN  /\ u.ret \in Range(history) \cup {null}
        /\ u.ret = null <=> history = <<>>
        /\ r.ret \in Range(redoStack) \cup {null}
        /\ r.ret = null <=> redoStack = <<>>
        /\ \A socket \in connected, data \in Strokes :
              LET a == addAction(This, NewAction(socket, data, now))
              IN  /\ a.ret = null
                  /\ Len(a.history) = Min(Len(history) + 1, maxHistorySize)
        /\ c.ret = null
        /\ c.history = <<>>
        /\ c.redoStack = <<>>
        /\ g.history = history
        /\ g.historyLength = Len(history)
        /\ \A socketId \in Joiners \ connected, random \in RandomColors :
              LET added == addUser(Room, socketId, random, now)
              IN  /\ added.ret.userId = socketId
                  /\ added.ret.color \in Range(userColors) \cup RandomColors
                  /\ Len(added.users) = Len(users) + 1
        /\ \A socketId \in Joiners \cup connected :
              LET room == removeUser(Room, socketId)
              IN  /\ IndexOf(room.users, socketId) = 0
                  /\ Len(room.users) =
                        Len(users) - (IF socketId \in LiveIds THEN 1 ELSE 0)
        /\ Len(getUsers(Room)) = Len(users)

\* After a commit to a full log, which evicted the oldest stroke, a redo
\* found nothing to do.
C28_Witness ==
    /\ op = "redo"
    /\ ret = null
    /\ pre.op = "addAction"
    /\ Len(pre.history) = maxHistorySize
    /\ pre.history[1].id > 1
    /\ history = pre.history

\* C29: a step that handles an undo or redo request is, messages included,
\* the step of that request from every open connection; the messages go
\* to all; an undo takes the last action of the log and a redo the top
\* of the redo stack whoever drew it, connected or not.
C29_UndoRedoGlobal ==
    [][(op' \in {"undo", "redo"}) =>
          /\ op' = "undo" => \A socket \in connected : Undo(socket)
          /\ op' = "redo" => \A socket \in connected : Redo(socket)
          /\ (op' = "undo" /\ history # <<>>) => ret' = Last(history)
          /\ (op' = "redo" /\ redoStack # <<>>) => ret' = Last(redoStack)
          /\ \A m \in Range(emitted') : m.to = "all"]_vars

\* An undo took an action drawn by a participant who has left, and then
\* one drawn by a participant who is connected.
C29_Witness ==
    /\ op = "undo"
    /\ pre.op = "undo"
    /\ ret # null
    /\ ret.userId \in connected
    /\ redoStack[1].userId \notin connected
    /\ Cardinality(connected) = 2
    /\ Len(emitted) = 2

\* C30: the length of the redo stack is the number of undos less the number
\* of redos that succeeded since the last commit or clear (or since the
\* start), so it is non-empty only after such an undo.
C30_RedoOnlyAfterUndo ==
    /\ Len(redoStack) = netUndos
    /\ redoStack # <<>> => netUndos >= 1
    /\ op \in {"addAction", "clearHistory"} => (netUndos = 0 /\ redoStack = <<>>)

\* Two undos and a redo since the last commit: one action is left to redo.
C30_Witness ==
    /\ op = "redo"
    /\ ret # null
    /\ netUndos = 1
    /\ Len(redoStack) = 1
    /\ Len(pre.redoStack) = 2

(***************************************************************************)
(* Properties of the pages.                                                *)
(***************************************************************************)
\* Nothing is on its way to page c and no gesture is going on.
Settled(c) ==
    /\ c \in connected
    /\ inbox[c] = << >>
    /\ \A a \in Pages : ~pen[a].isDrawing /\ pen[a].sent = none

\* C23: while no connection has been lost, whenever a page has received
\* everything sent to it and no stroke is in progress, its canvas shows
\* exactly the replay of a value the log has had: no stroke in part.
C23_CanvasIsSnapshot ==
    \A c \in Pages :
        (joins = 0 /\ connected = Pages /\ Settled(c))
            => \E h \in logs : canvas[c] = MarksOf(h)

\* C26: when a page has come back after its connection was lost and has
\* received everything the server sent it, with no stroke in progress and
\* no request handled since, its canvas is the replay of the server's log.
C26_ReconnectShowsLog ==
    \A c \in Pages :
        (op = "addUser" /\ who = c /\ Settled(c)) => canvas[c] = MarksOf(history)

\* C31: while no connection has been lost, whenever a page has received
\* everything sent to it and no stroke is in progress, it shows every line
\* of every stroke of the history, whatever redraw or clear it received
\* while a stroke was being drawn.
C31_CommittedShownInFull ==
    \A c \in Pages :
        (joins = 0 /\ connected = Pages /\ Settled(c))
            => MarksOf(history) \subseteq canvas[c]

\* C32: whenever two connected pages have received everything sent to them
\* and no stroke is in progress, they show the same lines.
C32_PagesConverge ==
    \A a, b \in Pages :
        (Settled(a) /\ Settled(b)) => canvas[a] = canvas[b]

\* C33: the color of a line relayed to a page while its stroke is drawn,
\* in which onRemoteDrawing draws it, is the color the author's page sent
\* with it and the color stored with the stroke once it is committed, in
\* which a replay draws it.
C33_LiveColorIsStrokeColor ==
    \A c \in Pages : \A i \in 1..Len(inbox[c]) :
        LET m == inbox[c][i]
        IN  (m.event = "drawing" /\ "segment" \in DOMAIN m.data) =>
               /\ m.color = m.data.color
               /\ \A j \in 1..Len(history) :
                      history[j].data.path = m.data.path
                          => m.color = history[j].data.color

(***************************************************************************)
(* Size and order of the two stacks.                                       *)
(***************************************************************************)
\* C36: in every reachable state the lengths of the history and of the redo
\* stack add up to 100 at most.
C36_StacksWithinBound == Len(history) + Len(redoStack) <= maxHistorySize

\* A redo has filled the history to 100 entries.
C36_Witness ==
    /\ op = "redo"
    /\ ret # null
    /\ Len(history) = maxHistorySize
    /\ Len(pre.history) + Len(pre.redoStack) = maxHistorySize

\* The history followed by the redo stack read from its top to its bottom.
Timeline ==
    history \o [i \in 1..Len(redoStack) |-> redoStack[Len(redoStack) + 1 - i]]

\* C37: the history followed by the redo stack read from top to bottom is
\* strictly increasing in commit order (the identities allocated at commit),
\* so no action is there twice.
C37_CommitOrder ==
    \A i \in 1..(Len(Timeline) - 1) : Timeline[i].id < Timeline[i + 1].id

\* A redo with two actions undone and two or more left in the history.
C37_Witness ==
    /\ op = "redo"
    /\ ret # null
    /\ Len(pre.redoStack) = 2
    /\ Len(pre.history) >= 2
    /\ pre.op = "undo"

\* C38: an action evicted by the size bound is in neither stack in any
\* later state, and no later undo or redo returns it.
C38_EvictedNeverReturns ==
    /\ evicted \cap Stored = {}
    /\ op \in {"undo", "redo"} => ret \notin evicted

\* A redo after an eviction.
C38_Witness ==
    /\ evicted # {}
    /\ op = "redo"
    /\ ret # null

(***************************************************************************)
(* The colors marked as used.                                              *)
(***************************************************************************)
\* C39: in every reachable state the colors marked as used are exactly the
\* palette colors held by live participants, also after a participant who
\* held a synthesized color has left.  Colors are the strings the registry
\* stores and compares.
C39_UsedIsHeldPalette ==
    usedColors = Held(users) \cap Range(userColors)

\* A participant on a synthesized color left while another one on a
\* synthesized color and all twelve palette colors stayed.
C39_Witness ==
    /\ op = "removeUser"
    /\ preRoom.users[IndexOf(preRoom.users, who)].color \in RandomColors
    /\ Held(users) \cap RandomColors # {}
    /\ usedColors = Range(userColors)

(***************************************************************************)
(* History-size notifications and the toolbars.                            *)
(***************************************************************************)
Updates == {i \in 1..Len(emitted) : emitted[i].event = "historyUpdate"}

Changed == history # pre.history \/ redoStack # pre.redoStack

C35_ToolbarShowsLengths ==
    \A c \in Pages :
        (c \in connected /\ inbox[c] = << >>) =>
            /\ toolbar[c] = [historyCount |-> Len(history), redoCount |-> Len(redoStack)]
            /\ (toolbar[c].historyCount = 0) <=> (history = << >>)

\* After a reconnection, the last stroke was undone and both pages, all
\* received, show an empty history and one action to redo.
C35_Witness ==
    /\ op = "undo"
    /\ ret # null
    /\ history = << >>
    /\ joins > 0
    /\ \A c \in Pages :
          /\ c \in connected
          /\ inbox[c] = << >>
          /\ toolbar[c] = [historyCount |-> 0, redoCount |-> 1]

(***************************************************************************)
(* Gestures.                                                               *)
(***************************************************************************)
IsEnd(request) == request.event = "drawing" /\ request.type = "end"

=========================================================================
